---- MODULE Spec2Model ----
(***************************************************************************)
(* State-machine model of the state-estimation and self-calibration core   *)
(* of imu_intelligence: SelfCalibrator (src/core/calibration.py),          *)
(* AdaptiveEKF (src/core/kalman_filter.py) and the sampling loop           *)
(* HermesIMU.run (src/main.py).                                             *)
(*                                                                         *)
(* Real numbers are fixed-point integers: a quantity x is held as the      *)
(* integer x * FP.  Variances and other products of two quantities are     *)
(* held as x * FP * FP.                                                     *)
(***************************************************************************)
EXTENDS Integers, Sequences, FiniteSets, TLC

VARIABLES
    \* ---- SelfCalibrator (src/core/calibration.py) ----
    maxlen,            \* self.window.maxlen, the window_size given to __init__
    window,            \* self.window: the deque, oldest sample first
    is_calibrated,     \* self.is_calibrated
    calibration_data,  \* self.calibration_data: a reference to a dict object
    heap,              \* the dict objects, by reference
    stationary_accel,  \* self.stationary_accel, NoAttr until first assigned
    stationary_gyro,   \* self.stationary_gyro, NoAttr until first assigned
    \* ---- AdaptiveEKF (src/core/kalman_filter.py) ----
    state,             \* self.state: 13 numbers (q, position, velocity, gyro bias)
    P,                 \* self.P: 13x13 covariance
    Q,                 \* self.Q: 13x13 process noise
    R,                 \* self.R: measurement noise
    \* ---- the caller ----
    n_adds,            \* number of add_sample calls made so far
    n_gets,            \* number of get_calibration calls made so far
    switches,          \* number of times the sensor stream changed its value
    raised,            \* exception that escaped the last call, or "none"
    last_pass,         \* what the last add_sample call's _auto_calibrate did
    last_detect,       \* what the last add_sample call's _detect_stationary did
    calib,             \* reference the caller holds from get_calibration
    calib_seen,        \* the field values the caller read when it got calib
    n_calls,           \* number of predict/update calls made so far
    last_op,           \* the last call made: "none", "predict", "update", ...
    last_args,         \* the arguments of the last predict/update call
    \* ---- HermesIMU.run (src/main.py) ----
    pc,                \* where run() is: "idle" while run() was not called
    warmup_samples,    \* the list warmup_samples
    imu,               \* the calibration held by the sensor driver
    \* ---- a helper called on its own ----
    fn_in,             \* the argument of the last call of the helper
    fn_out,            \* what that call returned
    \* ---- the second AdaptiveEKF (src/kalman_filter.py) ----
    legacy             \* an object of that class, driven by the same calls

calVars == <<maxlen, window, is_calibrated, calibration_data, heap,
             stationary_accel, stationary_gyro>>
ekfVars == <<state, P, Q, R>>
calCallerVars == <<n_adds, n_gets, switches, last_pass, last_detect, calib, calib_seen>>
runVars == <<pc, warmup_samples, imu>>
fnVars == <<fn_in, fn_out>>
vars == <<calVars, ekfVars, calCallerVars, n_calls, last_op, last_args, raised,
          runVars, fnVars, legacy>>

----------------------------------------------------------------------------
(* Fixed-point arithmetic *)

FP == 10 * 10 * 10

Abs(x) == IF x < 0 THEN 0 - x ELSE x

Min(a, b) == IF a < b THEN a ELSE b

Max(a, b) == IF a > b THEN a ELSE b

\* Division rounding to the nearest integer (d > 0).
RoundDiv(n, d) == IF n >= 0 THEN (2 * n + d) \div (2 * d)
                  ELSE 0 - ((2 * (0 - n) + d) \div (2 * d))

RECURSIVE SqrtSearch(_, _, _)
SqrtSearch(x, lo, hi) ==
    IF lo >= hi THEN lo
    ELSE LET mid == (lo + hi + 1) \div 2
         IN IF mid * mid <= x THEN SqrtSearch(x, mid, hi)
            ELSE SqrtSearch(x, lo, mid - 1)

\* floor(sqrt(x)) for 0 <= x < 2^31
ISqrt(x) == SqrtSearch(x, 0, 46340)

RECURSIVE SumSeq(_)
SumSeq(xs) == IF xs = <<>> THEN 0 ELSE Head(xs) + SumSeq(Tail(xs))

Vec3(a, b, c) == <<a, b, c>>

Zeros3 == Vec3(0, 0, 0)

Ones3 == Vec3(FP, FP, FP)

\* np.linalg.norm of a 3-vector
Norm3(v) == ISqrt(v[1] * v[1] + v[2] * v[2] + v[3] * v[3])

----------------------------------------------------------------------------
(* Inputs *)

\* Capacity of the calibration window in the bounded model (the code's
\* default window_size is 1000).
WindowSize == 102

\* A capacity below the stationarity threshold of 100 samples.
SmallWindowSize == 3

\* add_sample calls made after the window first fills.
ExtraAdds == 2

\* How often the sensor stream may change value.
MaxSwitches == 1

\* The sensor stream may change its value every Burst readings.
Burst == 20

\* get_calibration calls made by the caller.
MaxGets == 1

MaxAdds == WindowSize + ExtraAdds

\* Sensor readings: at rest with a gyro bias, and in motion.
Still == [accel |-> Vec3(0, 0, 9810), gyro |-> Vec3(20, 0 - 10, 0)]

Moving == [accel |-> Vec3(3000, 0, 9810), gyro |-> Vec3(500, 0, 0)]

Tilted == [accel |-> Vec3(0, 5880, 7850), gyro |-> Vec3(0 - 30, 0, 10)]

Readings == {Still, Tilted, Moving}

\* An attribute that was never assigned (reading it raises AttributeError).
NoAttr == <<>>

\* The arguments of a call, when the last call was not predict or update.
NoArgs == <<>>

----------------------------------------------------------------------------
(* SelfCalibrator *)

DefaultGravity == 9810

DefaultStationaryThreshold == 50 * FP

GyroVarThreshold == FP

MinSamples == 100

RecentCount == 50

DefaultCalibration ==
    [accel_bias |-> Zeros3, gyro_bias |-> Zeros3,
     accel_scale |-> Ones3, gyro_scale |-> Ones3,
     gravity_magnitude |-> DefaultGravity,
     stationary_threshold |-> DefaultStationaryThreshold]

\* a window kept in a plain list: nothing is ever dropped
ListAppend(dq, cap, x) == Append(dq, x)

\* deque.append on a deque(maxlen=cap): the oldest element is dropped when full
DequeAppend(dq, cap, x) ==
    IF cap = 0 THEN dq
    ELSE IF Len(dq) >= cap THEN Append(Tail(dq), x)
    ELSE Append(dq, x)

\* the whole window taken as the recent samples
WholeWindow(dq) == dq

\* list(self.window)[-50:]
Recent(dq) == SubSeq(dq, Max(1, Len(dq) - RecentCount + 1), Len(dq))

Axis(samples, field, k) == [i \in 1..Len(samples) |-> samples[i][field][k]]

\* ndarray.mean(axis=0), one axis
MeanAxis(xs) == RoundDiv(SumSeq(xs), Len(xs))

\* np.var(..., axis=0), one axis: mean(|x - mean(x)|^2)
VarAxis(xs) ==
    LET m == MeanAxis(xs)
    IN RoundDiv(SumSeq([i \in 1..Len(xs) |-> (xs[i] - m) * (xs[i] - m)]), Len(xs))

\* np.mean of a 3-vector
Mean3(v) == RoundDiv(v[1] + v[2] + v[3], 3)

\* The calibrator object as one value, for the sequential steps of a call.
Self == [window |-> window, is_calibrated |-> is_calibrated,
         data |-> heap[calibration_data],
         stationary_accel |-> stationary_accel,
         stationary_gyro |-> stationary_gyro,
         raised |-> "none", pass |-> "none", detect |-> "none"]

detect_stationary(self) ==
    LET recent == Recent(self.window)
        accel_var == [k \in 1..3 |-> VarAxis(Axis(recent, "accel", k))]
        gyro_var == [k \in 1..3 |-> VarAxis(Axis(recent, "gyro", k))]
        mean_accel == [k \in 1..3 |-> MeanAxis(Axis(recent, "accel", k))]
        mean_gyro == [k \in 1..3 |-> MeanAxis(Axis(recent, "gyro", k))]
    IN IF Mean3(accel_var) < self.data.stationary_threshold
          /\ Mean3(gyro_var) < GyroVarThreshold
       THEN [self EXCEPT !.stationary_accel = mean_accel,
                         !.stationary_gyro = mean_gyro,
                         !.data.gravity_magnitude = Norm3(mean_accel),
                         !.detect = "stationary"]
       ELSE [self EXCEPT !.detect = "moving"]

\* What scipy's minimize(..., method='Nelder-Mead') can hand back: it raises,
\* or returns a result with a success flag and a parameter vector x.
\* x is (bias, scale), or holds a NaN/inf component (finite = FALSE).
Seed == [finite |-> TRUE, bias |-> Zeros3, scale |-> Ones3]

Fitted == [finite |-> TRUE, bias |-> Vec3(10, 0 - 20, 30), scale |-> Vec3(990, 1010, FP)]

NonFinite == [finite |-> FALSE, bias |-> Zeros3, scale |-> Ones3]

MinimizeOutcomes ==
    {[raises |-> TRUE, success |-> FALSE, x |-> Seed]}
    \cup {[raises |-> FALSE, success |-> TRUE, x |-> x] : x \in {Seed, Fitted}}
    \cup {[raises |-> FALSE, success |-> FALSE, x |-> Fitted]}
    \cup {[raises |-> FALSE, success |-> TRUE, x |-> NonFinite]}

\* np.all(np.isfinite(x))
IsFinite(x) == x.finite

\* the fit stored without marking the calibrator as calibrated
ApplyFitNoFlag(s, x) ==
    [s EXCEPT !.data.accel_bias = x.bias,
              !.data.accel_scale = x.scale,
              !.pass = "applied"]

\* lines 73-75: the fitted parameters are stored and the flag is set
ApplyFit(s, x) ==
    [s EXCEPT !.data.accel_bias = x.bias,
              !.data.accel_scale = x.scale,
              !.is_calibrated = TRUE,
              !.pass = "applied"]

\* "using defaults" taken to reset the gyro bias as well
FallbackResetsGyroBias(s, why) ==
    [s EXCEPT !.data.accel_bias = Zeros3,
              !.data.accel_scale = Ones3,
              !.data.gyro_bias = Zeros3,
              !.pass = why]

\* a fallback that leaves the stored bias and scale as they are
FallbackKeepsFit(s, why) == [s EXCEPT !.pass = why]

\* lines 78-80 and 83-85: "using defaults"
Fallback(s, why) ==
    [s EXCEPT !.data.accel_bias = Zeros3,
              !.data.accel_scale = Ones3,
              !.pass = why]

\* a pass that drops the snapshot once it has read it
auto_calibrate_consumes_snapshot(self, result) ==
    IF self.stationary_gyro = NoAttr
    THEN [self EXCEPT !.raised = "AttributeError", !.pass = "AttributeError"]
    ELSE
      LET s1 == [self EXCEPT !.data.gyro_bias = self.stationary_gyro,
                             !.stationary_gyro = NoAttr,
                             !.stationary_accel = NoAttr]
      IN IF result.raises THEN Fallback(s1, "raised")
         ELSE IF result.success /\ IsFinite(result.x) THEN ApplyFit(s1, result.x)
         ELSE Fallback(s1, IF result.success THEN "nonfinite" ELSE "failed")

\* a pass that fits the accelerometer but never writes gyro_bias
auto_calibrate_keeps_gyro_bias(self, result) ==
    IF self.stationary_gyro = NoAttr
    THEN [self EXCEPT !.raised = "AttributeError", !.pass = "AttributeError"]
    ELSE IF result.raises THEN Fallback(self, "raised")
    ELSE IF result.success /\ IsFinite(result.x) THEN ApplyFit(self, result.x)
    ELSE Fallback(self, IF result.success THEN "nonfinite" ELSE "failed")

auto_calibrate(self, result) ==
    IF self.stationary_gyro = NoAttr
    THEN [self EXCEPT !.raised = "AttributeError", !.pass = "AttributeError"]
    ELSE
      LET s1 == [self EXCEPT !.data.gyro_bias = self.stationary_gyro]
      IN IF result.raises THEN Fallback(s1, "raised")
         ELSE IF result.success /\ IsFinite(result.x) THEN ApplyFit(s1, result.x)
         ELSE Fallback(s1, IF result.success THEN "nonfinite" ELSE "failed")

\* add_sample looking for a stationary interval from the 100th sample on
add_sample_detects_at_min(self, cap, sample, result) ==
    LET s1 == [self EXCEPT !.window = DequeAppend(self.window, cap, sample)]
        s2 == IF Len(s1.window) >= MinSamples THEN detect_stationary(s1) ELSE s1
    IN IF Len(s2.window) = cap THEN auto_calibrate(s2, result) ELSE s2

\* add_sample running the fit as soon as detection is eligible, not at capacity
add_sample_calibrates_early(self, cap, sample, result) ==
    LET s1 == [self EXCEPT !.window = DequeAppend(self.window, cap, sample)]
        s2 == IF Len(s1.window) > MinSamples THEN detect_stationary(s1) ELSE s1
    IN IF Len(s2.window) > MinSamples THEN auto_calibrate(s2, result) ELSE s2

\* add_sample running the pass before it looks for a stationary interval
add_sample_calibrates_first(self, cap, sample, result) ==
    LET s1 == [self EXCEPT !.window = DequeAppend(self.window, cap, sample)]
        s2 == IF Len(s1.window) = cap THEN auto_calibrate(s1, result) ELSE s1
    IN IF s2.raised = "none" /\ Len(s2.window) > MinSamples
       THEN [detect_stationary(s2) EXCEPT !.pass = s2.pass]
       ELSE s2

add_sample(self, cap, sample, result) ==
    LET s1 == [self EXCEPT !.window = DequeAppend(self.window, cap, sample)]
        s2 == IF Len(s1.window) > MinSamples THEN detect_stationary(s1) ELSE s1
    IN IF Len(s2.window) = cap THEN auto_calibrate(s2, result) ELSE s2

\* self.<field> := the fields of the calibrator value s
Store(s) ==
    /\ window' = s.window
    /\ is_calibrated' = s.is_calibrated
    /\ heap' = [heap EXCEPT ![calibration_data] = s.data]
    /\ stationary_accel' = s.stationary_accel
    /\ stationary_gyro' = s.stationary_gyro
    /\ raised' = s.raised
    /\ last_pass' = s.pass
    /\ last_detect' = s.detect
    /\ UNCHANGED <<maxlen, calibration_data>>

\* The stream may change its value after n readings: every Burst readings,
\* when the window has just filled, and RecentCount readings before it fills
\* (the window then fills with a sub-window of the new value only).
SwitchPoint(n) ==
    \/ n % Burst = 0
    \/ n = maxlen
    \/ n = maxlen - RecentCount

\* The next reading of the sensor stream: the stream keeps its value, or
\* changes it while the switch budget lasts.
NextReadings ==
    IF window = <<>> THEN Readings
    ELSE LET prev == [accel |-> window[Len(window)].accel,
                      gyro |-> window[Len(window)].gyro]
         IN IF switches < MaxSwitches /\ SwitchPoint(n_adds) THEN Readings ELSE {prev}

Switched(r) ==
    IF window = <<>> THEN 0
    ELSE IF r.accel = window[Len(window)].accel /\ r.gyro = window[Len(window)].gyro
    THEN 0 ELSE 1

AddSample ==
    /\ n_adds < MaxAdds
    /\ \E r \in NextReadings :
       \E result \in MinimizeOutcomes :
          /\ Store(add_sample(Self, maxlen,
                              [id |-> n_adds + 1, accel |-> r.accel, gyro |-> r.gyro],
                              result))
          /\ switches' = switches + Switched(r)
    /\ n_adds' = n_adds + 1
    /\ last_op' = "add_sample"
    /\ UNCHANGED <<n_gets, calib, calib_seen, ekfVars, n_calls, last_args, runVars,
                   fnVars, legacy>>

\* get_calibration returns self.calibration_data itself
get_calibration == calibration_data

GetCalibration ==
    /\ n_gets < MaxGets
    /\ n_gets' = n_gets + 1
    /\ calib' = get_calibration
    /\ calib_seen' = heap[get_calibration]
    /\ raised' = "none"
    /\ last_op' = "get_calibration"
    /\ UNCHANGED <<calVars, n_adds, switches, last_pass, last_detect, ekfVars,
                   n_calls, last_args, runVars, fnVars, legacy>>

InitCalibrator(cap) ==
    /\ maxlen = cap
    /\ window = <<>>
    /\ is_calibrated = FALSE
    /\ calibration_data = 1
    /\ heap = <<DefaultCalibration>>
    /\ stationary_accel = NoAttr
    /\ stationary_gyro = NoAttr

InitCaller ==
    /\ n_adds = 0
    /\ n_gets = 0
    /\ switches = 0
    /\ raised = "none"
    /\ last_pass = "none"
    /\ last_detect = "none"
    /\ calib = 0
    /\ calib_seen = DefaultCalibration
    /\ n_calls = 0
    /\ last_op = "none"
    /\ last_args = NoArgs

\* The helper has not been called on its own, and no object of the second
\* AdaptiveEKF class has been constructed.
NoFn == fn_in = <<>> /\ fn_out = <<>> /\ legacy = <<>>

\* MPU6050.__init__: zero bias, unit scale
DriverDefaults ==
    [accel_bias |-> Zeros3, gyro_bias |-> Zeros3,
     accel_scale |-> Ones3, gyro_scale |-> Ones3]

\* run() has not been called.
NoRun == pc = "idle" /\ warmup_samples = <<>> /\ imu = DriverDefaults

\* No AdaptiveEKF object has been constructed.
NoEKF == state = <<>> /\ P = <<>> /\ Q = <<>> /\ R = <<>>

InitCal ==
    /\ \E cap \in {SmallWindowSize, WindowSize} : InitCalibrator(cap)
    /\ NoEKF
    /\ InitCaller
    /\ NoRun
    /\ NoFn

NextCal == AddSample \/ GetCalibration

SpecCal == InitCal /\ [][NextCal]_vars

----------------------------------------------------------------------------
(* AdaptiveEKF *)

\* Covariances (P, R, S) are held as x * CovUnit.
CovUnit == FP * FP

\* The process noise Q is held as x * QUnit, so that its floor 1e-6 is not
\* the smallest number the arithmetic can hold.
QUnit == CovUnit * FP

\* 1e-6 in np.eye(13) * 1e-6
QFloor == QUnit \div CovUnit

\* predict/update calls made on a filter.
MaxCalls == 4

\* self.dt = 0.01
Dt == FP \div 100

\* gravity in predict and update: 9.81
G == 9810

\* Inputs to predict and update (rad/s and m/s^2).
GyroInputs == {Zeros3, Vec3(8000, 0, 0), Vec3(0, 0 - 3000, 2000)}

AccelInputs == {Vec3(0, 0, 9810), Vec3(2000, 0, 9000)}

Rows(A) == Len(A)

Cols(A) == Len(A[1])

\* k * np.eye(n)
Eye(n, k) == [i \in 1..n |-> [j \in 1..n |-> IF i = j THEN k ELSE 0]]

Transpose(A) == [j \in 1..Cols(A) |-> [i \in 1..Rows(A) |-> A[i][j]]]

\* A @ B, the sums of products divided by the scale d
MatMul(A, B, d) ==
    [i \in 1..Rows(A) |-> [j \in 1..Cols(B) |->
        RoundDiv(SumSeq([k \in 1..Rows(B) |-> A[i][k] * B[k][j]]), d)]]

\* A @ v for a vector v
MatVec(A, v, d) ==
    [i \in 1..Rows(A) |-> RoundDiv(SumSeq([k \in 1..Len(v) |-> A[i][k] * v[k]]), d)]

MatAdd(A, B) == [i \in 1..Rows(A) |-> [j \in 1..Cols(A) |-> A[i][j] + B[i][j]]]

MatSub(A, B) == [i \in 1..Rows(A) |-> [j \in 1..Cols(A) |-> A[i][j] - B[i][j]]]

\* a matrix held in units of 1/(d * FP) brought to units of 1/d
Milli(S) == [i \in 1..Rows(S) |-> [j \in 1..Cols(S) |-> RoundDiv(S[i][j], FP)]]

\* numpy broadcasting of two 2-D operands: each pair of dimensions is equal
\* or one of them is 1
Broadcastable(A, B) ==
    /\ (Rows(A) = Rows(B) \/ Rows(A) = 1 \/ Rows(B) = 1)
    /\ (Cols(A) = Cols(B) \/ Cols(A) = 1 \/ Cols(B) = 1)

Trace(A) == SumSeq([i \in 1..Rows(A) |-> A[i][i]])

Dot(u, v) == SumSeq([i \in 1..Len(u) |-> u[i] * v[i]])

\* state[a:b] of the code, as the 1-based positions a+1..b
Slice(v, a, b) == [i \in 1..(b - a) |-> v[a + i]]

\* v with v[a:b] replaced by u
SetSlice(v, a, b, u) ==
    [i \in 1..Len(v) |-> IF i > a /\ i <= b THEN u[i - a] ELSE v[i]]

\* np.linalg.norm of a vector
Norm(v) == ISqrt(Dot(v, v))

\* the quaternion left as the Euler step wrote it
KeepLength(v) == v

\* v /= np.linalg.norm(v)
Normalize(v) == LET n == Norm(v) IN [i \in 1..Len(v) |-> RoundDiv(v[i] * FP, n)]

\* The 4x4 matrix Omega of predict (also used by _compute_jacobian)
Omega(w) ==
    << <<0, 0 - w[1], 0 - w[2], 0 - w[3]>>,
       <<w[1], 0, w[3], 0 - w[2]>>,
       <<w[2], 0 - w[3], 0, w[1]>>,
       <<w[3], w[2], 0 - w[1], 0>> >>

\* 2*a*b of two fixed-point numbers
Twice(a, b) == RoundDiv(2 * a * b, FP)

\* lines 125-132: the matrix built from w, x, y, z = q
rotmat_of(q) ==
    LET w == q[1]
        x == q[2]
        y == q[3]
        z == q[4]
    IN << <<FP - Twice(y, y) - Twice(z, z), Twice(x, y) - Twice(w, z), Twice(x, z) + Twice(w, y)>>,
          <<Twice(x, y) + Twice(w, z), FP - Twice(x, x) - Twice(z, z), Twice(y, z) - Twice(w, x)>>,
          <<Twice(x, z) - Twice(w, y), Twice(y, z) + Twice(w, x), FP - Twice(x, x) - Twice(y, y)>> >>

\* The helper is also given quaternions far smaller than 1/FP: its argument
\* is held as a vector m and a decimal exponent e, q = (m / FP) * 10^-e.
\* The filter's own quaternions have e = 0.
RECURSIVE Pow10(_)
Pow10(n) == IF n = 0 THEN 1 ELSE 10 * Pow10(n - 1)

\* 1e-10 is 10^-EpsDigits
EpsDigits == 10

\* norm < 1e-10, that is Norm(m) * 10^(EpsDigits - e) < FP; when
\* 10^(EpsDigits - e) >= FP = 10^3 only Norm(m) = 0 is that small
norm_below_eps(m, e) ==
    IF e >= EpsDigits THEN Norm(m) < FP * Pow10(e - EpsDigits)
    ELSE IF EpsDigits - e >= 3 THEN Norm(m) = 0
    ELSE Norm(m) * Pow10(EpsDigits - e) < FP

\* a guard that only catches the quaternion whose norm is exactly 0
quat_to_rotmat_zero_guard(m, e) ==
    IF Norm(m) = 0 THEN Eye(3, FP) ELSE rotmat_of(Normalize(m))

\* _quat_to_rotmat(q) for q = (m / FP) * 10^-e
quat_to_rotmat_at(m, e) ==
    IF norm_below_eps(m, e) THEN Eye(3, FP) ELSE rotmat_of(Normalize(m))

quat_to_rotmat(q) == quat_to_rotmat_at(q, 0)

\* a transition Jacobian that couples the quaternion to the gyro bias
compute_jacobian_bias_coupled(gyro, accel_world) ==
    LET qblock == MatAdd(Eye(4, FP),
                         [i \in 1..4 |-> [j \in 1..4 |->
                             RoundDiv(Dt * Omega(gyro)[i][j], 2 * FP)]])
    IN [i \in 1..13 |-> [j \in 1..13 |->
          IF i <= 4 /\ j <= 4 THEN qblock[i][j]
          ELSE IF i <= 4 /\ j >= 11 THEN 0 - (Dt \div 2)
          ELSE IF i \in 5..7 /\ j = i + 3 THEN Dt
          ELSE IF i = j THEN FP
          ELSE 0]]

compute_jacobian(gyro, accel_world) ==
    LET qblock == MatAdd(Eye(4, FP),
                         [i \in 1..4 |-> [j \in 1..4 |->
                             RoundDiv(Dt * Omega(gyro)[i][j], 2 * FP)]])
    IN [i \in 1..13 |-> [j \in 1..13 |->
          IF i <= 4 /\ j <= 4 THEN qblock[i][j]
          ELSE IF i \in 5..7 /\ j = i + 3 THEN Dt
          ELSE IF i = j THEN FP
          ELSE 0]]

measurement_jacobian(st) ==
    LET q == Slice(st, 0, 4)
        z13 == [j \in 1..13 |-> 0]
    IN << SetSlice(z13, 0, 4, <<2 * q[2], 2 * q[3], 2 * q[4], 0>>),
          SetSlice(z13, 0, 4, <<0, 2 * q[1], 0, 2 * q[4]>>),
          SetSlice(z13, 0, 4, <<2 * q[1], 0, 2 * q[2], 2 * q[3]>>) >>

\* The filter object as one value, for the sequential steps of a call.
Ekf == [state |-> state, P |-> P, Q |-> Q, R |-> R, raised |-> "none"]

\* gravity taken from the calibration record instead of the constant
to_world_calibrated_gravity(Rm, accel) ==
    LET ra == MatVec(Rm, accel, FP)
    IN Vec3(ra[1], ra[2], ra[3] - heap[calibration_data].gravity_magnitude)

\* the rotated acceleration with gravity left in
to_world_with_gravity(Rm, accel) == MatVec(Rm, accel, FP)

\* line 44: accel_world = R @ accel - np.array([0, 0, 9.81])
to_world(Rm, accel) ==
    LET ra == MatVec(Rm, accel, FP)
    IN Vec3(ra[1], ra[2], ra[3] - G)

predict(self, gyro, accel) ==
    LET gyro_corrected == [k \in 1..3 |-> gyro[k] - self.state[10 + k]]
        q_dot == MatVec(Omega(gyro_corrected), Slice(self.state, 0, 4), 2 * FP)
        st1 == SetSlice(self.state, 0, 4,
                   [i \in 1..4 |-> self.state[i] + RoundDiv(q_dot[i] * Dt, FP)])
        st2 == SetSlice(st1, 0, 4, Normalize(Slice(st1, 0, 4)))
        \* q is a view of self.state[0:4]: it shows the quaternion just written
        q == Slice(st2, 0, 4)
        Rm == quat_to_rotmat(q)
        accel_world == to_world(Rm, accel)
        st3 == SetSlice(st2, 7, 10,
                   [k \in 1..3 |-> st2[7 + k] + RoundDiv(accel_world[k] * Dt, FP)])
        st4 == SetSlice(st3, 4, 7,
                   [k \in 1..3 |-> st3[4 + k] + RoundDiv(st3[7 + k] * Dt, FP)])
        F == compute_jacobian(gyro_corrected, accel_world)
    IN [self EXCEPT !.state = st4,
                    !.P = MatAdd(MatMul(MatMul(F, self.P, FP), Transpose(F), FP),
                                 Milli(self.Q))]

\* np.linalg.inv of a 3x3 matrix held in CovUnit; the result is held in FP.
\* A zero determinant is numpy's LinAlgError ("Singular matrix").
Det3(m) ==
    m[1][1] * (m[2][2] * m[3][3] - m[2][3] * m[3][2])
    - m[1][2] * (m[2][1] * m[3][3] - m[2][3] * m[3][1])
    + m[1][3] * (m[2][1] * m[3][2] - m[2][2] * m[3][1])

Cofactor3(m, i, j) ==
    LET r == IF i = 1 THEN <<2, 3>> ELSE IF i = 2 THEN <<1, 3>> ELSE <<1, 2>>
        c == IF j = 1 THEN <<2, 3>> ELSE IF j = 2 THEN <<1, 3>> ELSE <<1, 2>>
        minor == m[r[1]][c[1]] * m[r[2]][c[2]] - m[r[1]][c[2]] * m[r[2]][c[1]]
    IN IF (i + j) % 2 = 0 THEN minor ELSE 0 - minor

Singular(S) == RoundDiv(Det3(Milli(S)), FP) = 0

Inv3(S) ==
    LET m == Milli(S)
        det == RoundDiv(Det3(m), FP)
    IN [i \in 1..3 |-> [j \in 1..3 |-> RoundDiv(Cofactor3(m, j, i) * FP, det)]]

\* Q *= factor, with no floor under the result
adapt_noise_no_floor(self, innovation, innovation_cov) ==
    LET N == Dot(innovation, innovation)
        factor == IF N > 2 * Trace(innovation_cov) THEN FP + 10 ELSE FP - 1
    IN [self EXCEPT !.Q = [i \in 1..13 |-> [j \in 1..13 |->
                              RoundDiv(self.Q[i][j] * factor, FP)]]]

\* Q *= factor; Q = np.maximum(Q, np.eye(13) * 1e-6)
adapt_noise(self, innovation, innovation_cov) ==
    LET N == Dot(innovation, innovation)
        factor == IF N > 2 * Trace(innovation_cov) THEN FP + 10 ELSE FP - 1
        scaled == [i \in 1..13 |-> [j \in 1..13 |-> RoundDiv(self.Q[i][j] * factor, FP)]]
        floor == Eye(13, QFloor)
    IN [self EXCEPT !.Q = [i \in 1..13 |-> [j \in 1..13 |->
                              Max(scaled[i][j], floor[i][j])]]]

update(self, accel_meas) ==
    LET q == Slice(self.state, 0, 4)
        Rm == quat_to_rotmat(q)
        g_world == Vec3(0, 0, G)
        h == MatVec(Transpose(Rm), g_world, FP)
        y == [k \in 1..3 |-> accel_meas[k] - h[k]]
        H == measurement_jacobian(self.state)
        HPHt == MatMul(MatMul(H, self.P, FP), Transpose(H), FP)
    IN IF ~Broadcastable(HPHt, self.R)
       THEN [self EXCEPT !.raised = "ValueError"]
       ELSE
         LET S == MatAdd(HPHt, self.R)
         IN IF Singular(S)
            THEN [self EXCEPT !.raised = "LinAlgError"]
            ELSE
              LET PHt == Milli(MatMul(self.P, Transpose(H), FP))
                  K == MatMul(PHt, Inv3(S), FP)
                  Ky == MatVec(K, y, FP)
                  st1 == [i \in 1..13 |-> self.state[i] + Ky[i]]
                  st2 == SetSlice(st1, 0, 4, Normalize(Slice(st1, 0, 4)))
                  IKH == MatSub(Eye(13, FP), MatMul(K, H, FP))
                  s1 == [self EXCEPT !.state = st2,
                                     !.P = MatMul(IKH, self.P, FP)]
              IN adapt_noise(s1, y, S)

StoreEkf(e) ==
    /\ state' = e.state
    /\ P' = e.P
    /\ Q' = e.Q
    /\ R' = e.R
    /\ raised' = e.raised

\* AdaptiveEKF.__init__
InitEkf ==
    /\ state = [i \in 1..13 |-> IF i = 1 THEN FP ELSE 0]
    /\ P = Eye(13, CovUnit \div 10)
    /\ Q = Eye(13, QUnit \div 1000)
    /\ R = Eye(6, CovUnit \div 100)

\* No SelfCalibrator object has been constructed.
NoCalibrator ==
    /\ maxlen = 0
    /\ window = <<>>
    /\ is_calibrated = FALSE
    /\ calibration_data = 0
    /\ heap = <<>>
    /\ stationary_accel = NoAttr
    /\ stationary_gyro = NoAttr

Predict ==
    /\ n_calls < MaxCalls
    /\ \E gyro \in GyroInputs, accel \in AccelInputs :
          /\ StoreEkf(predict(Ekf, gyro, accel))
          /\ last_args' = <<gyro, accel>>
    /\ n_calls' = n_calls + 1
    /\ last_op' = "predict"
    /\ UNCHANGED <<calVars, calCallerVars, runVars, fnVars, legacy>>

Update ==
    /\ n_calls < MaxCalls
    /\ \E accel_meas \in AccelInputs :
          /\ StoreEkf(update(Ekf, accel_meas))
          /\ last_args' = <<accel_meas>>
    /\ n_calls' = n_calls + 1
    /\ last_op' = "update"
    /\ UNCHANGED <<calVars, calCallerVars, runVars, fnVars, legacy>>

InitEKF == InitEkf /\ NoCalibrator /\ InitCaller /\ NoRun /\ NoFn

NextEKF == Predict \/ Update

SpecEKF == InitEKF /\ [][NextEKF]_vars

----------------------------------------------------------------------------
(* The AdaptiveEKF class of src/kalman_filter.py, next to the one of
   src/core/kalman_filter.py, both driven by the same calls *)

\* Calls made to the pair of filters.
MaxTwinCalls == 3

\* AdaptiveEKF.__init__ of src/kalman_filter.py
LegacyConstructed ==
    [state |-> [i \in 1..13 |-> IF i = 1 THEN FP ELSE 0],
     P |-> Eye(13, CovUnit \div 10),
     Q |-> Eye(13, QUnit \div 1000),
     R |-> Eye(6, CovUnit \div 100),
     raised |-> "none"]

\* _quat_to_rotmat of src/kalman_filter.py: the matrix of q as it is given,
\* with no norm test and no normalization
legacy_quat_to_rotmat(q) == rotmat_of(q)

\* predict of src/kalman_filter.py: the state is stepped as in the other
\* class, then line 42 looks up self._compute_jacobian, which the class does
\* not define: AttributeError, with P not yet written.
legacy_predict(self, gyro, accel) ==
    LET gyro_corrected == [k \in 1..3 |-> gyro[k] - self.state[10 + k]]
        q_dot == MatVec(Omega(gyro_corrected), Slice(self.state, 0, 4), 2 * FP)
        st1 == SetSlice(self.state, 0, 4,
                   [i \in 1..4 |-> self.state[i] + RoundDiv(q_dot[i] * Dt, FP)])
        st2 == SetSlice(st1, 0, 4, Normalize(Slice(st1, 0, 4)))
        q == Slice(st2, 0, 4)
        Rm == legacy_quat_to_rotmat(q)
        accel_world == to_world(Rm, accel)
        st3 == SetSlice(st2, 7, 10,
                   [k \in 1..3 |-> st2[7 + k] + RoundDiv(accel_world[k] * Dt, FP)])
        st4 == SetSlice(st3, 4, 7,
                   [k \in 1..3 |-> st3[4 + k] + RoundDiv(st3[7 + k] * Dt, FP)])
    IN [self EXCEPT !.state = st4, !.raised = "AttributeError"]

\* update of src/kalman_filter.py: q, R, h and y are locals; line 54 looks up
\* self._measurement_jacobian, which the class does not define:
\* AttributeError before any attribute is written.
legacy_update(self, accel_meas) == [self EXCEPT !.raised = "AttributeError"]

TwinCall(op, core, old) ==
    /\ n_calls < MaxTwinCalls
    /\ StoreEkf(core)
    /\ legacy' = old
    /\ n_calls' = n_calls + 1
    /\ last_op' = op
    /\ UNCHANGED <<calVars, calCallerVars, runVars, fnVars>>

TwinPredict ==
    \E gyro \in GyroInputs, accel \in AccelInputs :
       /\ TwinCall("predict", predict(Ekf, gyro, accel),
                   legacy_predict([legacy EXCEPT !.raised = "none"], gyro, accel))
       /\ last_args' = <<gyro, accel>>

TwinUpdate ==
    \E accel_meas \in AccelInputs :
       /\ TwinCall("update", update(Ekf, accel_meas),
                   legacy_update([legacy EXCEPT !.raised = "none"], accel_meas))
       /\ last_args' = <<accel_meas>>

InitTwin ==
    /\ InitEkf /\ NoCalibrator /\ InitCaller /\ NoRun
    /\ fn_in = <<>> /\ fn_out = <<>>
    /\ legacy = LegacyConstructed

NextTwin == TwinPredict \/ TwinUpdate

SpecTwin == InitTwin /\ [][NextTwin]_vars

----------------------------------------------------------------------------
(* A SelfCalibrator and an AdaptiveEKF owned by the same caller *)

\* Calls made on the two objects together, after the calibrator was fed.
MaxOwnCalls == 3

\* SelfCalibrator(window_size=cap), as a calibrator value
Constructed(cap) ==
    [window |-> <<>>, is_calibrated |-> FALSE, data |-> DefaultCalibration,
     stationary_accel |-> NoAttr, stationary_gyro |-> NoAttr,
     raised |-> "none", pass |-> "none", detect |-> "none"]

\* The calibrator of capacity cap > 101 after 101 add_sample calls with the
\* reading r: the first 100 calls only append (neither test of lines 26 and
\* 29 holds), the 101st is the first to run the stationarity check.  No pass
\* runs, so the optimizer is not called.
Fed(cap, r) ==
    LET sample(i) == [id |-> i, accel |-> r.accel, gyro |-> r.gyro]
        appended == [Constructed(cap) EXCEPT
                        !.window = [i \in 1..MinSamples |-> sample(i)]]
    IN add_sample(appended, cap, sample(MinSamples + 1),
                  [raises |-> TRUE, success |-> FALSE, x |-> Seed])

\* A calibrator of capacity WindowSize that was given 101 equal samples of a
\* device under a steady acceleration (its check has recorded a snapshot with
\* gravity_magnitude = 10.26), and a constructed filter.
InitOwn ==
    /\ LET s == Fed(WindowSize, Moving)
       IN /\ maxlen = WindowSize
          /\ window = s.window
          /\ is_calibrated = s.is_calibrated
          /\ calibration_data = 1
          /\ heap = <<s.data>>
          /\ stationary_accel = s.stationary_accel
          /\ stationary_gyro = s.stationary_gyro
          /\ last_pass = s.pass
          /\ last_detect = s.detect
          /\ raised = s.raised
    /\ n_adds = MinSamples + 1
    /\ n_gets = 0 /\ switches = 0 /\ calib = 0 /\ calib_seen = DefaultCalibration
    /\ n_calls = 0
    /\ last_op = "add_sample"
    /\ last_args = NoArgs
    /\ InitEkf
    /\ NoRun
    /\ NoFn

OwnCalls == (n_adds - (MinSamples + 1)) + n_calls

OwnAddSample == OwnCalls < MaxOwnCalls /\ AddSample

OwnPredict == OwnCalls < MaxOwnCalls /\ Predict

OwnUpdate == OwnCalls < MaxOwnCalls /\ Update

NextOwn == OwnAddSample \/ OwnPredict \/ OwnUpdate

SpecOwn == InitOwn /\ [][NextOwn]_vars

----------------------------------------------------------------------------
(* AdaptiveEKF._adapt_noise called on its own *)

\* _adapt_noise calls made on a filter.
MaxAdapts == 7000

\* Only the first MaxLargeCalls of them may be given a large innovation.
MaxLargeCalls == 1

\* An innovation covariance S with trace 0.3.
InnovationCov == Eye(3, CovUnit \div 10)

\* y @ y = 0.01 <= 2 * trace(S)
SmallInnovation == Vec3(0, 0, FP \div 10)

\* y @ y = 4 > 2 * trace(S)
LargeInnovation == Vec3(0, 0, 2 * FP)

Innovations(n) ==
    IF n < MaxLargeCalls THEN {SmallInnovation, LargeInnovation}
    ELSE {SmallInnovation}

AdaptNoise ==
    /\ n_calls < MaxAdapts
    /\ \E y \in Innovations(n_calls) :
          /\ StoreEkf(adapt_noise(Ekf, y, InnovationCov))
          /\ last_args' = <<y, InnovationCov>>
    /\ n_calls' = n_calls + 1
    /\ last_op' = "_adapt_noise"
    /\ UNCHANGED <<calVars, calCallerVars, runVars, fnVars, legacy>>

NextAdapt == AdaptNoise

SpecAdapt == InitEKF /\ [][NextAdapt]_vars

----------------------------------------------------------------------------
(* AdaptiveEKF._quat_to_rotmat called on its own *)

\* Quaternions given to the helper: q = (m / FP) * 10^-e, unit and not,
\* down to norms around the threshold 1e-10 and below it.
QuatMantissas == [1..4 -> {0 - FP, 0, 600, 800, FP}]

QuatExponents == {0, EpsDigits - 1, EpsDigits, EpsDigits + 2}

QuatToRotmat ==
    /\ fn_out = <<>>
    /\ fn_out' = quat_to_rotmat_at(fn_in.m, fn_in.e)
    /\ last_op' = "_quat_to_rotmat"
    /\ UNCHANGED <<fn_in, calVars, ekfVars, calCallerVars, n_calls, last_args,
                   raised, runVars, legacy>>

InitRot ==
    /\ InitEkf /\ NoCalibrator /\ InitCaller /\ NoRun
    /\ fn_in \in [m : QuatMantissas, e : QuatExponents]
    /\ fn_out = <<>>
    /\ legacy = <<>>

NextRot == QuatToRotmat

SpecRot == InitRot /\ [][NextRot]_vars

----------------------------------------------------------------------------
(* HermesIMU.run *)

\* SelfCalibrator() in HermesIMU.__init__: window_size=1000
DefaultWindowSize == 1000

\* for _ in range(500)
WarmupCount == 500

\* Iterations of the monitoring loop.
MaxLoops == 2

\* During run() the sensor stream holds a value for a multiple of RunBurst
\* readings.
RunBurst == 250

\* deque.extend(xs): each element is appended in turn, so the deque ends up
\* with the last cap elements of dq followed by xs
DequeExtend(dq, cap, xs) ==
    LET all == dq \o xs
    IN IF Len(all) <= cap THEN all
       ELSE SubSeq(all, Len(all) - cap + 1, Len(all))

\* MPU6050.read_raw: (raw - bias) * scale on both sensors
read_raw(drv, raw) ==
    [accel |-> [k \in 1..3 |->
                  RoundDiv((raw.accel[k] - drv.accel_bias[k]) * drv.accel_scale[k], FP)],
     gyro |-> [k \in 1..3 |->
                  RoundDiv((raw.gyro[k] - drv.gyro_bias[k]) * drv.gyro_scale[k], FP)]]

\* The raw value the sensor stream can show at reading number n (from 0).
RawReadings(prev, n) ==
    IF n = 0 THEN Readings
    ELSE IF switches < MaxSwitches /\ n % RunBurst = 0 THEN Readings
    ELSE {prev}

\* lines 59-62: one pass of the warm-up loop
RunWarmup ==
    /\ pc = "warmup"
    /\ LET n == Len(warmup_samples)
           prev == IF n = 0 THEN Still
                   ELSE [accel |-> warmup_samples[n].accel, gyro |-> warmup_samples[n].gyro]
       IN \E raw \in RawReadings(prev, n) :
            LET data == read_raw(imu, raw)
            IN /\ warmup_samples' = Append(warmup_samples,
                       [id |-> n + 1, accel |-> data.accel, gyro |-> data.gyro])
               /\ switches' = switches + (IF n > 0 /\ raw # prev THEN 1 ELSE 0)
               /\ pc' = IF n + 1 = WarmupCount THEN "calibrate" ELSE "warmup"
    /\ last_op' = "read_raw"
    /\ UNCHANGED <<calVars, ekfVars, n_adds, n_gets, last_pass, last_detect, calib,
                   calib_seen, n_calls, last_args, raised, imu, fnVars, legacy>>

\* lines 64-128: the initial calibration, then the monitoring loop.  An
\* exception that escapes a call ends run().
RunContinue ==
    /\ pc \in {"calibrate", "train", "loop"}
    /\ CASE pc = "calibrate" ->
              \E result \in MinimizeOutcomes :
                LET s0 == [Self EXCEPT
                             !.window = DequeExtend(window, maxlen, warmup_samples)]
                    s1 == auto_calibrate(s0, result)
                IN /\ Store(s1)
                   /\ last_op' = "_auto_calibrate"
                   /\ IF s1.raised # "none"
                      THEN /\ pc' = "crashed"
                           /\ UNCHANGED <<calib, calib_seen, imu>>
                      ELSE /\ pc' = "train"
                           /\ calib' = get_calibration
                           /\ calib_seen' = s1.data
                           /\ imu' = [accel_bias |-> s1.data.accel_bias,
                                      gyro_bias |-> s1.data.gyro_bias,
                                      accel_scale |-> s1.data.accel_scale,
                                      gyro_scale |-> s1.data.gyro_scale]
                   /\ UNCHANGED <<ekfVars, n_calls, last_args, n_adds, n_gets,
                                  switches, warmup_samples, fnVars, legacy>>
         [] pc = "train" ->
              \* _collect_training_data: feature extraction and model training
              /\ pc' = "loop"
              /\ last_op' = "_collect_training_data"
              /\ UNCHANGED <<calVars, ekfVars, calCallerVars, n_calls, last_args,
                             raised, warmup_samples, imu, fnVars, legacy>>
         [] pc = "loop" ->
              /\ n_calls < 2 * MaxLoops
              /\ \E raw \in Readings :
                   LET data == read_raw(imu, raw)
                       e1 == predict(Ekf, data.gyro, data.accel)
                       e2 == update(e1, data.accel)
                   IN /\ StoreEkf(e2)
                      /\ last_args' = <<data.accel>>
                      /\ pc' = IF e2.raised # "none" THEN "crashed" ELSE "loop"
              /\ n_calls' = n_calls + 2
              /\ last_op' = "update"
              /\ UNCHANGED <<calVars, calCallerVars, warmup_samples, imu, fnVars, legacy>>

InitRun ==
    /\ InitCalibrator(DefaultWindowSize)
    /\ InitEkf
    /\ InitCaller
    /\ pc = "warmup" /\ warmup_samples = <<>> /\ imu = DriverDefaults
    /\ NoFn

NextRun == RunWarmup \/ RunContinue

SpecRun == InitRun /\ [][NextRun]_vars

----------------------------------------------------------------------------
(* Properties of the calibrator *)

Record == heap[calibration_data]

FallbackPasses == {"failed", "nonfinite", "raised"}

\* C2: the window never holds more than its capacity, and it holds exactly the
\* most recent min(n, capacity) samples in arrival order (samples are
\* identified by their arrival number), so eviction removes the oldest.
C2_WindowIsFifo ==
    /\ Len(window) <= maxlen
    /\ Len(window) = Min(n_adds, maxlen)
    /\ \A i \in 1..Len(window) : window[i].id = n_adds - Len(window) + i

C2_Witness == maxlen = WindowSize /\ n_adds = maxlen + 2 /\ window[1].id = 3

\* C3 (as claimed): no add_sample call lets an exception escape.
C3_AddSampleNeverRaises == raised = "none"

\* C6 (as claimed): after a pass that fell back to the seed values the
\* calibrator is marked as not calibrated.
C6_FallbackClearsCalibrated == last_pass \in FallbackPasses => ~is_calibrated

\* C7: after a pass in which the optimizer failed, returned a non-finite
\* parameter or raised, accel_bias is zero and accel_scale is one in the
\* record, and no exception escaped the call.
C7_FallbackRestoresSeed ==
    last_pass \in FallbackPasses =>
        /\ Record.accel_bias = Zeros3
        /\ Record.accel_scale = Ones3
        /\ raised = "none"

\* a fallback after an earlier pass had stored a fit that is not the seed
C7_Witness ==
    /\ last_pass \in FallbackPasses
    /\ is_calibrated
    /\ calib # 0 /\ calib_seen.accel_bias = Fitted.bias

\* C8 (as claimed): while is_calibrated is false the record is the default one.
C8_DefaultsUntilFit == ~is_calibrated => Record = DefaultCalibration

\* C8 (amended): while is_calibrated is false, accel_bias, accel_scale,
\* gyro_scale and stationary_threshold hold their defaults (gravity_magnitude
\* and gyro_bias may already have been changed).
C8_FitFieldsDefaultUntilFit ==
    ~is_calibrated =>
        /\ Record.accel_bias = Zeros3
        /\ Record.accel_scale = Ones3
        /\ Record.gyro_scale = Ones3
        /\ Record.stationary_threshold = DefaultStationaryThreshold

C8_Witness ==
    /\ ~is_calibrated
    /\ last_pass \in FallbackPasses
    /\ Record.gravity_magnitude # DefaultGravity
    /\ Record.gyro_bias # Zeros3

\* C9 (as claimed): the record obtained from get_calibration keeps the field
\* values it had when it was obtained.
C9_SnapshotIsStable == calib # 0 => heap[calib] = calib_seen

\* C10: is_calibrated is false at construction, and it is true only when a
\* stationary snapshot has been recorded and the window is full.
C10_PhasesInOrder ==
    /\ n_adds = 0 => ~is_calibrated
    /\ is_calibrated =>
          /\ stationary_accel # NoAttr
          /\ stationary_gyro # NoAttr
          /\ Len(window) = maxlen

C10_Witness == is_calibrated /\ last_pass = "applied" /\ n_adds = maxlen

\* Every sample fed so far was the stationary reading accel = (0, 0, 9.81),
\* gyro = Still.gyro.
OnlyStillFed ==
    \A i \in 1..Len(window) :
        window[i].accel = Still.accel /\ window[i].gyro = Still.gyro

\* C11 (as claimed): after the add_sample call that fills the window of a
\* fresh calibrator fed only the stationary reading, gyro_bias in the record
\* is the reading's gyro value and gravity_magnitude is 9.81.
C11_StillWindowConverges ==
    (n_adds = maxlen /\ OnlyStillFed) =>
        /\ Record.gyro_bias = Still.gyro
        /\ Record.gravity_magnitude = DefaultGravity

\* C11 (amended): the same, for a calibrator whose capacity is more than the
\* 100 samples that stationarity detection waits for.
C11_StillWindowConvergesAboveMin ==
    (maxlen > MinSamples /\ n_adds = maxlen /\ OnlyStillFed) =>
        /\ Record.gyro_bias = Still.gyro
        /\ Record.gravity_magnitude = DefaultGravity

C11_Witness ==
    /\ maxlen > MinSamples /\ n_adds = maxlen /\ OnlyStillFed
    /\ last_op = "add_sample"
    /\ stationary_gyro = Still.gyro

\* C16 (as claimed): a pass (the window is full after the append) ends in
\* one of two ways: the fit is applied and is_calibrated is true, or the
\* seed values are restored.
C16_PassEndsAppliedOrFallback ==
    n_adds >= maxlen =>
        \/ last_pass = "applied" /\ is_calibrated
        \/ /\ last_pass \in FallbackPasses
           /\ Record.accel_bias = Zeros3 /\ Record.accel_scale = Ones3

\* C18 (as claimed): a pass that runs when no stationary interval was ever
\* detected raises nothing, leaves gyro_bias as it was (zero) and still
\* performs the accelerometer fit.
C18_UndefinedGyroBiasIsSilent ==
    (n_adds >= maxlen /\ stationary_gyro = NoAttr) =>
        /\ raised = "none"
        /\ Record.gyro_bias = Zeros3
        /\ last_pass \in {"applied"} \cup FallbackPasses

\* C19 (as claimed): add_sample runs a pass only on a full window, and the
\* add_sample call that follows one that ran a pass runs none.
C19_PassIsEpisodic ==
    [][n_adds' = n_adds + 1 =>
          /\ (last_pass' # "none" => Len(window') = maxlen)
          /\ (last_pass # "none" => last_pass' = "none")]_vars

\* C20: _detect_stationary runs in an add_sample call exactly when the
\* window holds more than 100 samples after the append, so on every call
\* from the 101st on, and never in a calibrator of capacity 100 or less.
C20_DetectionWhenAboveMin ==
    /\ n_adds > 0 => (last_detect # "none" <=> Len(window) > MinSamples)
    /\ maxlen <= MinSamples => last_detect = "none"

\* detection ran again in a call made after the window had filled
C20_Witness ==
    /\ maxlen = WindowSize
    /\ n_adds = maxlen + 1
    /\ last_detect = "moving"
    /\ last_op = "add_sample"

\* The last 50 samples of a window that holds more than 50.
Last50(dq) == SubSeq(dq, Len(dq) - RecentCount + 1, Len(dq))

Last50Mean(dq, field) == [k \in 1..3 |-> MeanAxis(Axis(Last50(dq), field, k))]

\* The mean of the three per-axis accel variances of the last 50 samples is
\* below threshold and the mean of their gyro variances is below 0.001.
Last50IsStationary(dq, threshold) ==
    /\ Mean3([k \in 1..3 |-> VarAxis(Axis(Last50(dq), "accel", k))]) < threshold
    /\ Mean3([k \in 1..3 |-> VarAxis(Axis(Last50(dq), "gyro", k))]) < GyroVarThreshold

\* C21: in an add_sample call that runs the stationarity check (more than 100
\* samples after the append), the snapshot becomes the means of the last 50
\* samples and gravity_magnitude the norm of the accel mean exactly when both
\* variance means are below their thresholds, and all three are left as they
\* were otherwise; when the call runs no auto-calibration pass, accel_bias,
\* accel_scale, gyro_bias and is_calibrated are unchanged.
C21_DetectionRecordsSnapshot ==
    [][(n_adds' = n_adds + 1 /\ Len(window') > MinSamples) =>
          /\ IF Last50IsStationary(window', Record.stationary_threshold)
             THEN /\ stationary_accel' = Last50Mean(window', "accel")
                  /\ stationary_gyro' = Last50Mean(window', "gyro")
                  /\ heap'[calibration_data'].gravity_magnitude
                         = Norm3(Last50Mean(window', "accel"))
             ELSE /\ stationary_accel' = stationary_accel
                  /\ stationary_gyro' = stationary_gyro
                  /\ heap'[calibration_data'].gravity_magnitude
                         = Record.gravity_magnitude
          /\ last_pass' = "none" =>
                /\ heap'[calibration_data'].accel_bias = Record.accel_bias
                /\ heap'[calibration_data'].accel_scale = Record.accel_scale
                /\ heap'[calibration_data'].gyro_bias = Record.gyro_bias
                /\ is_calibrated' = is_calibrated]_vars

\* the check of the 101st call found the last 50 samples, all tilted, at
\* rest, after earlier samples of another value; no pass ran in that call
C21_Witness ==
    /\ maxlen = WindowSize /\ n_adds = MinSamples + 1
    /\ last_op = "add_sample" /\ last_pass = "none"
    /\ last_detect = "stationary"
    /\ window[1].accel = Still.accel
    /\ stationary_gyro = Tilted.gyro
    /\ Record.gravity_magnitude = Norm3(Tilted.accel)

\* The passes that got past line 55, that is, ran with a recorded snapshot.
SnapshotPasses == {"applied"} \cup FallbackPasses

\* C22: after a pass that ran with a recorded snapshot, gyro_bias in the
\* record is the gyro mean of the snapshot now held (the most recent one),
\* whether the fit was applied or the seed values were restored.
C22_GyroBiasIsSnapshot ==
    last_pass \in SnapshotPasses => Record.gyro_bias = stationary_gyro

\* a pass that fell back, after the snapshot of a tilted device at rest
C22_Witness ==
    /\ last_pass \in FallbackPasses
    /\ n_adds > maxlen
    /\ stationary_gyro = Tilted.gyro
    /\ Record.accel_bias = Zeros3

\* C23 (as claimed): a pass that follows a pass which read the snapshot reads
\* a snapshot only if a stationary interval was detected again in between,
\* that is, by the check of its own add_sample call.
C23_SnapshotUsedOnce ==
    [][(/\ n_adds' = n_adds + 1
        /\ last_pass \in SnapshotPasses
        /\ last_pass' \in SnapshotPasses)
       => last_detect' = "stationary"]_vars

\* C23 (amended): the snapshot is kept until a later detection overwrites it:
\* the add_sample call that follows a pass which read the snapshot runs a
\* pass that reads a snapshot again, and when the check of that call found no
\* stationary interval it is the same snapshot, giving the same gyro_bias.
C23_SnapshotIsKept ==
    [][(n_adds' = n_adds + 1 /\ last_pass \in SnapshotPasses) =>
          /\ last_pass' \in SnapshotPasses
          /\ last_detect' # "stationary" =>
                /\ stationary_gyro' = stationary_gyro
                /\ stationary_accel' = stationary_accel
                /\ heap'[calibration_data'].gyro_bias = Record.gyro_bias]_vars

\* the device started to move right after the pass of the filling call; the
\* pass of the next call read the snapshot taken while it was at rest
C23_Witness ==
    /\ maxlen = WindowSize /\ n_adds = maxlen + 1
    /\ last_op = "add_sample"
    /\ last_detect = "moving"
    /\ last_pass \in SnapshotPasses
    /\ window[Len(window)].accel = Moving.accel
    /\ Record.gyro_bias = Still.gyro

\* C29: in an add_sample call that fills or refills the window and whose last
\* 50 samples, the one just appended included, are at rest, the pass of that
\* call finds the snapshot recorded by the check of that same call: it does
\* not raise, gyro_bias becomes the gyro mean of those 50 samples and
\* gravity_magnitude holds the norm of their accel mean.
C29_PassSeesOwnDetection ==
    [][(/\ n_adds' = n_adds + 1
        /\ maxlen > MinSamples /\ Len(window') = maxlen
        /\ Last50IsStationary(window', Record.stationary_threshold))
       => /\ window'[Len(window')].id = n_adds'
          /\ last_detect' = "stationary"
          /\ last_pass' \in SnapshotPasses
          /\ stationary_accel' = Last50Mean(window', "accel")
          /\ heap'[calibration_data'].gyro_bias = Last50Mean(window', "gyro")
          /\ heap'[calibration_data'].gravity_magnitude
                 = Norm3(Last50Mean(window', "accel"))]_vars

\* the stream changed 50 samples before the window filled: the filling call
\* is the first whose last 50 samples all have the new value, and its pass
\* stored their gyro mean
C29_Witness ==
    /\ maxlen = WindowSize /\ n_adds = maxlen
    /\ last_op = "add_sample"
    /\ last_detect = "stationary"
    /\ last_pass \in SnapshotPasses
    /\ window[maxlen - RecentCount].gyro # window[maxlen].gyro
    /\ window[maxlen - RecentCount + 1].gyro = window[maxlen].gyro
    /\ Record.gyro_bias = window[maxlen].gyro
    /\ Record.gravity_magnitude = Norm3(window[maxlen].accel)

----------------------------------------------------------------------------
(* Properties of the filter *)

Quaternion == Slice(state, 0, 4)

\* The resolution of the norm of a normalized fixed-point quaternion
\* (2.5 units of 1/FP), as a bound on | |q|^2 - 1 |.
QuatTol == 5 * FP

C4_UpdateReturnsNormally == last_op = "update" => raised = "none"

----------------------------------------------------------------------------
(* Properties of the sampling loop *)

\* The samples run() has read so far: the warm-up reads and one read for
\* each predict/update pair of the monitoring loop.
SamplesRead == Len(warmup_samples) + n_calls \div 2

\* C26 (as claimed): every sample run() has read was given to the
\* calibrator through add_sample.
C26_EveryReadIsIngested == pc # "idle" => n_adds = SamplesRead

\* C5 (as claimed): no exception escapes the initial calibration or an
\* iteration of the monitoring loop, so run() is never ended by one.
C5_RunKeepsSampling == pc # "crashed"

\* Q scaled by factor/FP, element by element.
TimesQ(Qm, factor) ==
    [i \in 1..13 |-> [j \in 1..13 |-> RoundDiv(Qm[i][j] * factor, FP)]]

\* C12 (as claimed): an update call multiplies Q by 1.01 and trace(Q) grows,
\* or it multiplies Q by 0.999 (then floors it) and trace(Q) does not grow.
C12_UpdateAdaptsQ ==
    [][(last_op' = "update" /\ n_calls' = n_calls + 1) =>
          \/ /\ Q' = TimesQ(Q, FP + 10)
             /\ Trace(Q') > Trace(Q)
          \/ /\ Q' = [i \in 1..13 |-> [j \in 1..13 |->
                         Max(TimesQ(Q, FP - 1)[i][j], Eye(13, QFloor)[i][j])]]
             /\ Trace(Q') <= Trace(Q)]_vars

\* C13 (as claimed): every element of Q, on and off the diagonal, is at
\* least the floor 1e-6.
C13_EveryElementAboveFloor ==
    Q # <<>> => \A i \in 1..13 : \A j \in 1..13 : Q[i][j] >= QFloor

\* C13 (amended): every diagonal element of Q is at least the floor 1e-6, so
\* trace(Q) is at least 13 * 1e-6, however many deflating steps were made.
C13_DiagonalAboveFloor ==
    Q # <<>> =>
        /\ \A i \in 1..13 : Q[i][i] >= QFloor
        /\ Trace(Q) >= 13 * QFloor

\* deflating steps went on after Q had come down to the floor
C13_Witness ==
    /\ last_op = "_adapt_noise"
    /\ n_calls = MaxAdapts
    /\ \A i \in 1..13 : Q[i][i] = QFloor
    /\ \A i \in 1..13 : \A j \in 1..13 : i # j => Q[i][j] = 0

\* The filter state st has the identity orientation and zero position and
\* velocity.
AtRest(st) ==
    /\ Slice(st, 0, 4) = <<FP, 0, 0, 0>>
    /\ Slice(st, 4, 10) = [k \in 1..6 |-> 0]

\* The accelerometer reading of a device at rest: (0, 0, 9.81).
RestAccel == Vec3(0, 0, G)

\* C14: the constructed filter is at rest, and a predict call with
\* gyro = (0,0,0), accel = (0,0,9.81) or an update call with (0,0,9.81) made
\* on a filter at rest leaves it at rest, so the filter is at rest after any
\* number of such cycles.
C14_RestIsFixedPoint ==
    /\ (state # <<>> => AtRest(state))
    /\ [][(/\ AtRest(state)
           /\ n_calls' = n_calls + 1
           /\ \/ last_op' = "predict" /\ last_args' = <<Zeros3, RestAccel>>
              \/ last_op' = "update" /\ last_args' = <<RestAccel>>)
          => AtRest(state')]_vars

\* two cycles predict; update at rest, the predict calls having grown P
C14_Witness ==
    /\ n_calls = MaxCalls
    /\ last_op = "update" /\ last_args = <<RestAccel>>
    /\ AtRest(state)
    /\ P[5][5] > CovUnit \div 10

----------------------------------------------------------------------------
(* Properties of the rotation-matrix helper *)

\* Tolerances of the fixed-point arithmetic (the integer norm of a vector of
\* length 0.6 to 2 is off by up to 1 part in 600): 0.02 on a matrix entry or
\* a vector component, 0.04 on a product of two of them.
RotTol == 2 * 10

RotTol2 == 2 * RotTol * FP

\* Rm is, to the resolution of the arithmetic, the rotation matrix of the
\* unit quaternion u: its rows are orthonormal, it leaves the axis
\* (u2, u3, u4) in place, and its trace is 4 * u1^2 - 1.
IsRotationOf(Rm, u) ==
    /\ \A i \in 1..3 : \A j \in 1..3 :
          Abs(Dot(Rm[i], Rm[j]) - (IF i = j THEN CovUnit ELSE 0)) <= RotTol2
    /\ \A k \in 1..3 :
          Abs(MatVec(Rm, Slice(u, 1, 4), FP)[k] - u[k + 1]) <= RotTol
    /\ Abs(Trace(Rm) - (RoundDiv(4 * u[1] * u[1], FP) - FP)) <= RotTol

----------------------------------------------------------------------------
(* Properties of predict and update *)

\* The velocity increment of a predict call that rotates accel with the
\* rotation matrix of the quaternion q: (R(q) @ accel - (0, 0, 9.81)) * dt.
VelocityStep(q, accel) ==
    [k \in 1..3 |-> RoundDiv(to_world(quat_to_rotmat(q), accel)[k] * Dt, FP)]

\* C24 (as claimed): predict adds to the velocity the acceleration rotated
\* with the quaternion held on entry to the call.
C24_RotatesWithEntryQuaternion ==
    [][(last_op' = "predict" /\ n_calls' = n_calls + 1) =>
          \A k \in 1..3 :
             state'[7 + k] = state[7 + k] + VelocityStep(Quaternion, last_args'[2])[k]]_vars

\* The partial derivatives of h(q) = R(q)^T (0, 0, g), which is g times the
\* third row of R(q), g * (2xz - 2wy, 2yz + 2wx, 1 - 2x^2 - 2y^2), with
\* respect to (w, x, y, z).
AnalyticH(q) ==
    LET w == q[1]
        x == q[2]
        y == q[3]
        z == q[4]
        d(c) == RoundDiv(G * c, FP)
    IN << <<d(0 - 2 * y), d(2 * z), d(0 - 2 * w), d(2 * x)>>,
          <<d(2 * x), d(2 * w), d(2 * z), d(2 * y)>>,
          <<0, d(0 - 4 * x), d(0 - 4 * y), 0>> >>

\* C25 (as claimed): the measurement Jacobian of the filter's state is zero
\* outside its first four columns, and its first four columns are the
\* analytic partial derivatives of the predicted measurement.
C25_JacobianIsAnalytic ==
    state # <<>> =>
        LET H == measurement_jacobian(state)
        IN /\ \A i \in 1..3 : \A j \in 5..13 : H[i][j] = 0
           /\ \A i \in 1..3 : \A j \in 1..4 : H[i][j] = AnalyticH(Quaternion)[i][j]

----------------------------------------------------------------------------
(* Properties of the two objects together *)

\* C27: a predict or update call leaves the calibrator (window, record,
\* is_calibrated, snapshot) and R as they were; a predict call leaves Q as it
\* was and integrates the rotated acceleration minus the constant
\* (0, 0, 9.81), whatever gravity_magnitude the record holds; an add_sample
\* call leaves the filter's state, P, Q and R as they were.
C27_ObjectsAreIndependent ==
    [][/\ n_calls' = n_calls + 1 => (UNCHANGED calVars /\ R' = R)
       /\ (n_calls' = n_calls + 1 /\ last_op' = "predict") =>
             /\ Q' = Q
             /\ LET ra == MatVec(quat_to_rotmat(Slice(state', 0, 4)), last_args'[2], FP)
                    minus_g == Vec3(ra[1], ra[2], ra[3] - G)
                IN \A k \in 1..3 :
                      state'[7 + k] = state[7 + k] + RoundDiv(minus_g[k] * Dt, FP)
       /\ n_adds' = n_adds + 1 => UNCHANGED ekfVars]_vars

\* a predict call made while the record held gravity_magnitude = 10.26, then
\* an add_sample call that ran a pass
C27_Witness ==
    /\ legacy = <<>> /\ state # <<>> /\ maxlen = WindowSize
    /\ n_calls > 0 /\ state[8] # 0
    /\ last_op = "add_sample" /\ last_pass \in SnapshotPasses
    /\ heap[calibration_data].gravity_magnitude = Norm3(Moving.accel)
    /\ heap[calibration_data].gravity_magnitude # G

\* the cross blocks of P between the quaternion and the other nine states
BlockDiagonal(Pm) ==
    \A i \in 1..4 : \A j \in 5..13 : Pm[i][j] = 0 /\ Pm[j][i] = 0

\* line 64: the product P @ H.T that the gain K is built from
GainNumerator == MatMul(P, Transpose(measurement_jacobian(state)), FP)

\* C28: in every state reached from the constructed filter P has no entry
\* between the quaternion and the position, velocity and gyro-bias states,
\* the rows 4..12 of P @ H.T (and so of the gain) are zero, the gyro bias
\* is (0, 0, 0), and an update call leaves position, velocity and gyro bias
\* as they were.
C28_BlocksStayApart ==
    /\ [](/\ BlockDiagonal(P)
          /\ \A i \in 5..13 : \A k \in 1..3 : GainNumerator[i][k] = 0
          /\ Slice(state, 10, 13) = Vec3(0, 0, 0))
    /\ [][(n_calls' = n_calls + 1 /\ last_op' = "update") =>
             Slice(state', 4, 13) = Slice(state, 4, 13)]_vars

\* update called after predict calls have moved the velocity and filled the
\* position-velocity block of P
C28_Witness ==
    /\ legacy = <<>> /\ maxlen = 0 /\ fn_in = <<>>
    /\ last_op = "update" /\ n_calls >= 3
    /\ state[8] # 0 /\ state[2] # 0
    /\ P[5][8] # 0 /\ P[1][1] # CovUnit \div 10

----------------------------------------------------------------------------
(* Properties of the two AdaptiveEKF classes *)

\* C30: after every call made to both filters, the filter of
\* src/kalman_filter.py and the filter of src/core/kalman_filter.py hold the
\* same state, P and Q and the call ended the same way in both (returned, or
\* raised the same exception).
C30_TwinsAgree ==
    /\ legacy.state = state
    /\ legacy.P = P
    /\ legacy.Q = Q
    /\ legacy.raised = raised

====
